---- MODULE Spec2Model ----
(***************************************************************************)
(* Model of the dialogue turn pipeline of the digital-human backend:       *)
(*   server/app/services/dialogue.py  (DialogueService, session_histories) *)
(*   server/app/api/chat.py           (the /chat endpoints in front of it) *)
(*                                                                         *)
(* Text.  A Python str is modelled as a sequence of tokens; a token stands *)
(* for a fixed run of characters and the string is their concatenation.    *)
(* The source's Chinese keywords are written in pinyin because the module  *)
(* is ASCII: nihao, ninhao, hai, zaoshanghao, xiawuhao, wanshanghao (the   *)
(* greetings), nishishei "who are you", jieshao "introduce", shenme        *)
(* "what", xiexie / ganxie "thanks", zaijian / baibai "goodbye", tianqi    *)
(* "weather", tiaowu "to dance", wu "dance", ma (question particle), "?"   *)
(* and "fw?" (the ASCII and the full-width question mark).                 *)
(*                                                                         *)
(* Scheduling.  The service runs on one asyncio event loop, so the code    *)
(* between two awaits is one atomic step.  generate_reply suspends only at *)
(* the httpx post: a chat call is one step without a credential and two    *)
(* steps (send, receive) with one.                                         *)
(*                                                                         *)
(* Specifications.  Spec runs the endpoints together on a small set of     *)
(* inputs; FairSpec adds that a pending post ends.  LocalSpec and          *)
(* RemoteSpec run one part on a wide set of inputs: the local responder    *)
(* over the combinations of keywords, the handling of the remote content   *)
(* over the shapes of a JSON object.                                       *)
(***************************************************************************)
EXTENDS Integers, Sequences, FiniteSets, TLC

\* ------------------------------------------------------------------ bounds
\* MAX_HISTORY_LENGTH is 20 and the prompt window 10 in the source; the model
\* runs the same code with both scaled down so that trimming is reached.
MAX_HISTORY_LENGTH == 1
HISTORY_WINDOW == 1
\* chat calls started in one behaviour
MaxCalls == 2

\* request slots: a chat call occupies one from its start to its response, so
\* two calls can be in flight at the same time.  A slot shows the response it
\* delivered until the next step of a chat call.
Slots == {1, 2}

\* ------------------------------------------------------------------ strings
None == "None"

\* whitespace characters, removed by str.strip()
IsSpace(tok) == tok = " "

RECURSIVE lstrip(_)
lstrip(s) ==
  IF s # <<>> /\ IsSpace(Head(s)) THEN lstrip(Tail(s)) ELSE s

RECURSIVE rstrip(_)
rstrip(s) ==
  IF s # <<>> /\ IsSpace(s[Len(s)]) THEN rstrip(SubSeq(s, 1, Len(s) - 1)) ELSE s

\* str.strip()
strip(s) == rstrip(lstrip(s))

\* str.lower(), token by token
LowerTok(tok) ==
  CASE tok = "HELLO" -> "hello"
    [] tok = "Hi" -> "hi"
    [] tok = "Bye" -> "bye"
    [] OTHER -> tok

lower(s) == [i \in 1..Len(s) |-> LowerTok(s[i])]

\* The keywords that occur inside a token as substrings: the token itself,
\* and for the tokens whose characters contain a shorter keyword, that one
\* too (wu is the second character of tiaowu; "hi" occurs in "this").
Parts(tok) ==
  CASE tok = "tiaowu" -> {"tiaowu", "wu"}
    [] tok = "this" -> {"this", "hi"}
    [] OTHER -> {tok}

\* Python's `kw in s` on strings
Contains(s, kw) == \E i \in 1..Len(s) : kw \in Parts(s[i])

\* ---------------------------------------------------------- result vocabulary
VALID_EMOTIONS == {<<"neutral">>, <<"happy">>, <<"surprised">>, <<"sad">>, <<"angry">>}
VALID_ACTIONS == {<<"idle">>, <<"wave">>, <<"greet">>, <<"think">>, <<"nod">>,
                  <<"shakeHead">>, <<"dance">>, <<"speak">>}

Reply(text, emotion, action) ==
  [replyText |-> <<text>>, emotion |-> <<emotion>>, action |-> <<action>>]

\* ------------------------------------------------------------ local responder
\* GREETINGS with its first keyword left out
GREETINGS_WithoutNihao ==
  {"ninhao", "hello", "hi", "hai", "zaoshanghao", "xiawuhao", "wanshanghao"}

GREETINGS == {"nihao", "ninhao", "hello", "hi", "hai",
              "zaoshanghao", "xiawuhao", "wanshanghao"}

\* get_smart_mock_reply with the farewell test moved in front of the gratitude
\* test
get_smart_mock_reply_FarewellFirst(user_text) ==
  LET text_lower == lower(user_text) IN
  IF \E g \in GREETINGS : Contains(text_lower, g)
    THEN { Reply("greeting_1", "happy", "wave"),
           Reply("greeting_2", "happy", "greet"),
           Reply("greeting_3", "happy", "wave") }
  ELSE IF Contains(user_text, "nishishei") \/ Contains(user_text, "jieshao")
          \/ Contains(user_text, "shenme")
    THEN { Reply("self_intro", "happy", "greet") }
  ELSE IF Contains(user_text, "zaijian") \/ Contains(user_text, "baibai")
          \/ Contains(text_lower, "bye")
    THEN { Reply("farewell", "happy", "wave") }
  ELSE IF Contains(user_text, "xiexie") \/ Contains(user_text, "ganxie")
    THEN { Reply("you_are_welcome", "happy", "nod") }
  ELSE IF Contains(user_text, "tianqi")
    THEN { Reply("weather", "happy", "think") }
  ELSE IF Contains(user_text, "tiaowu") \/ Contains(user_text, "wu")
    THEN { Reply("dance", "happy", "dance") }
  ELSE IF Contains(user_text, "?") \/ Contains(user_text, "fw?")
          \/ Contains(user_text, "ma")
    THEN { Reply("good_question", "neutral", "think") }
  ELSE { Reply("default_1", "neutral", "nod"),
         Reply("default_2", "neutral", "idle"),
         Reply("default_3", "neutral", "nod"),
         Reply("default_4", "neutral", "idle") }

\* get_smart_mock_reply with the question test moved in front of the farewell
\* test
get_smart_mock_reply_QuestionFirst(user_text) ==
  LET text_lower == lower(user_text) IN
  IF \E g \in GREETINGS : Contains(text_lower, g)
    THEN { Reply("greeting_1", "happy", "wave"),
           Reply("greeting_2", "happy", "greet"),
           Reply("greeting_3", "happy", "wave") }
  ELSE IF Contains(user_text, "nishishei") \/ Contains(user_text, "jieshao")
          \/ Contains(user_text, "shenme")
    THEN { Reply("self_intro", "happy", "greet") }
  ELSE IF Contains(user_text, "xiexie") \/ Contains(user_text, "ganxie")
    THEN { Reply("you_are_welcome", "happy", "nod") }
  ELSE IF Contains(user_text, "?") \/ Contains(user_text, "fw?")
          \/ Contains(user_text, "ma")
    THEN { Reply("good_question", "neutral", "think") }
  ELSE IF Contains(user_text, "zaijian") \/ Contains(user_text, "baibai")
          \/ Contains(text_lower, "bye")
    THEN { Reply("farewell", "happy", "wave") }
  ELSE IF Contains(user_text, "tianqi")
    THEN { Reply("weather", "happy", "think") }
  ELSE IF Contains(user_text, "tiaowu") \/ Contains(user_text, "wu")
    THEN { Reply("dance", "happy", "dance") }
  ELSE { Reply("default_1", "neutral", "nod"),
         Reply("default_2", "neutral", "idle"),
         Reply("default_3", "neutral", "nod"),
         Reply("default_4", "neutral", "idle") }

\* The set of values _get_smart_mock_reply(user_text) can return: one value,
\* or every element random.choice can draw.
get_smart_mock_reply(user_text) ==
  LET text_lower == lower(user_text) IN
  IF \E g \in GREETINGS : Contains(text_lower, g)
    THEN { Reply("greeting_1", "happy", "wave"),
           Reply("greeting_2", "happy", "greet"),
           Reply("greeting_3", "happy", "wave") }
  ELSE IF Contains(user_text, "nishishei") \/ Contains(user_text, "jieshao")
          \/ Contains(user_text, "shenme")
    THEN { Reply("self_intro", "happy", "greet") }
  ELSE IF Contains(user_text, "xiexie") \/ Contains(user_text, "ganxie")
    THEN { Reply("you_are_welcome", "happy", "nod") }
  ELSE IF Contains(user_text, "zaijian") \/ Contains(user_text, "baibai")
          \/ Contains(text_lower, "bye")
    THEN { Reply("farewell", "happy", "wave") }
  ELSE IF Contains(user_text, "tianqi")
    THEN { Reply("weather", "happy", "think") }
  ELSE IF Contains(user_text, "tiaowu") \/ Contains(user_text, "wu")
    THEN { Reply("dance", "happy", "dance") }
  ELSE IF Contains(user_text, "?") \/ Contains(user_text, "fw?")
          \/ Contains(user_text, "ma")
    THEN { Reply("good_question", "neutral", "think") }
  ELSE { Reply("default_1", "neutral", "nod"),
         Reply("default_2", "neutral", "idle"),
         Reply("default_3", "neutral", "nod"),
         Reply("default_4", "neutral", "idle") }

\* --------------------------------------------------------------- session store
\* Session ids a caller can name.  The chat request may also omit the id.
SessionIds == {"s1", "s2"}
SessionArgs == SessionIds \cup {None, ""}

\* Python truthiness of an Optional[str] (session_id, api_key)
Truthy(v) == v \notin {None, ""}

\* Python truthiness of an Optional[dict] (meta); "{}" is the empty dict
TruthyDict(d) == d \notin {None, "{}"}

Turn(role, content, timestamp) ==
  [role |-> role, content |-> content, timestamp |-> timestamp]

\* session_histories.get(session_id, []): never inserts a key
get_session_history(histories, session_id) ==
  IF session_id \in DOMAIN histories THEN histories[session_id] ELSE <<>>

\* AppendTurn with one list object shared by every stored session
AppendTurn_SharedList(histories, session_id, turn) ==
  [s \in DOMAIN histories \cup {session_id} |->
     Append(get_session_history(histories, s), turn)]

\* session_histories[session_id].append(turn); the defaultdict inserts the key
AppendTurn(histories, session_id, turn) ==
  [s \in DOMAIN histories \cup {session_id} |->
     IF s = session_id
       THEN Append(get_session_history(histories, session_id), turn)
       ELSE histories[s]]

\* lst[-n:] for n > 0
LastN(lst, n) ==
  IF Len(lst) <= n THEN lst ELSE SubSeq(lst, Len(lst) - n + 1, Len(lst))

\* LimitHistory with the slice taken from the front: lst[:n]
LimitHistory_KeepOldest(histories, session_id) ==
  IF Len(histories[session_id]) > MAX_HISTORY_LENGTH * 2
    THEN [histories EXCEPT ![session_id] = SubSeq(@, 1, MAX_HISTORY_LENGTH * 2)]
    ELSE histories

\* the length limit applied after the user turn is appended
LimitHistory(histories, session_id) ==
  IF Len(histories[session_id]) > MAX_HISTORY_LENGTH * 2
    THEN [histories EXCEPT ![session_id] = LastN(@, MAX_HISTORY_LENGTH * 2)]
    ELSE histories

\* the user turn of generate_reply: append, then limit
RecordUser(histories, session_id, user_text, timestamp) ==
  IF Truthy(session_id)
    THEN LimitHistory(
           AppendTurn(histories, session_id, Turn("user", user_text, timestamp)),
           session_id)
    ELSE histories

\* RecordAssistant writing back a list that holds the new turn only, as a
\* write of a stale copy would: the turns appended meanwhile are lost
RecordAssistant_LostUpdate(histories, session_id, reply_text, timestamp) ==
  IF Truthy(session_id)
    THEN [s \in DOMAIN histories \cup {session_id} |->
            IF s = session_id
              THEN << Turn("assistant", reply_text, timestamp) >>
              ELSE histories[s]]
    ELSE histories

\* the assistant turn of generate_reply: append only
RecordAssistant(histories, session_id, reply_text, timestamp) ==
  IF Truthy(session_id)
    THEN AppendTurn(histories, session_id, Turn("assistant", reply_text, timestamp))
    ELSE histories

\* clear_session emptying the list instead of deleting the key
clear_session_KeepKey(histories, session_id) ==
  IF session_id \in DOMAIN histories
    THEN [histories |-> [histories EXCEPT ![session_id] = <<>>], success |-> TRUE]
    ELSE [histories |-> histories, success |-> FALSE]

\* DialogueService.clear_session: the store afterwards and the value returned
clear_session(histories, session_id) ==
  IF session_id \in DOMAIN histories
    THEN [histories |-> [s \in DOMAIN histories \ {session_id} |-> histories[s]],
          success |-> TRUE]
    ELSE [histories |-> histories, success |-> FALSE]

\* -------------------------------------------------------------- prompt builder
Message(role, content) == [role |-> role, content |-> content]

\* HistoryMessages with the slice taken from the front: history[:10]
HistoryMessages_Oldest(histories, session_id) ==
  IF Truthy(session_id) /\ session_id \in DOMAIN histories
    THEN LET history == SubSeq(histories[session_id], 1,
                               IF Len(histories[session_id]) < HISTORY_WINDOW
                                 THEN Len(histories[session_id]) ELSE HISTORY_WINDOW)
             kept == SelectSeq(history, LAMBDA msg : msg.role \in {"user", "assistant"})
         IN [i \in 1..Len(kept) |-> Message(kept[i].role, kept[i].content)]
    ELSE <<>>

\* the history part of the prompt: the last HISTORY_WINDOW stored turns
HistoryMessages(histories, session_id) ==
  IF Truthy(session_id) /\ session_id \in DOMAIN histories
    THEN LET history == LastN(histories[session_id], HISTORY_WINDOW)
             kept == SelectSeq(history, LAMBDA msg : msg.role \in {"user", "assistant"})
         IN [i \in 1..Len(kept) |-> Message(kept[i].role, kept[i].content)]
    ELSE <<>>

\* messages, as generate_reply builds them before the post
BuildMessages(histories, session_id, user_text, meta) ==
  <<Message("system", <<"system_prompt">>)>>
    \o HistoryMessages(histories, session_id)
    \o <<Message("user", user_text)>>
    \o (IF TruthyDict(meta)
          THEN <<Message("system", <<"meta_context:", meta>>)>>
          ELSE <<>>)

\* ------------------------------------------------------------ remote responses
\* What the post can come back with.  kind is
\*   "timeout"    httpx.TimeoutException
\*   "transport"  any other httpx transport error
\*   "status"     a non-success status: raise_for_status() raises
\*   "badbody"    a success status whose body is not JSON: resp.json() raises
\*   "nochoices"  a JSON body without choices[0].message.content
\*   "content"    a JSON body with that path; content is what it holds
\* A content is [t |-> "null"], [t |-> "text", raw |-> s] for a string that is
\* not JSON, or [t |-> "json", value |-> v] for a string that json.loads parses
\* to v.  A JSON value is [j |-> "object", fields |-> f], f a function from the
\* keys present to scalars, or [j |-> "array"]; a scalar is
\* [j |-> "string", s |-> s], [j |-> "number", s |-> its digits] or [j |-> "null"].
JStr(s) == [j |-> "string", s |-> s]
JNum(digits) == [j |-> "number", s |-> <<digits>>]
JNull == [j |-> "null", s |-> <<>>]

\* Python's str(v) of a parsed JSON scalar
str(v) ==
  CASE v.j = "string" -> v.s
    [] v.j = "number" -> v.s
    [] v.j = "null" -> <<None>>

\* parsed.get(key, default) followed by str(...).strip()
GetStripped(fields, key, default) ==
  strip(IF key \in DOMAIN fields THEN str(fields[key]) ELSE default)

\* `a or b` on strings
Or(a, b) == IF a # <<>> THEN a ELSE b

\* NormalizeEmotion without the vocabulary check
NormalizeEmotion_Unchecked(emotion) == emotion

NormalizeEmotion(emotion) ==
  IF emotion \notin VALID_EMOTIONS THEN <<"neutral">> ELSE emotion

NormalizeAction(action) ==
  IF action \notin VALID_ACTIONS THEN <<"idle">> ELSE action

\* NormalizeParsed giving up both tags as soon as one of them is out of its
\* vocabulary
NormalizeParsed_AllOrNothing(fields, user_text) ==
  LET emotion == Or(GetStripped(fields, "emotion", <<"neutral">>), <<"neutral">>)
      action == Or(GetStripped(fields, "action", <<"idle">>), <<"idle">>)
      valid == emotion \in VALID_EMOTIONS /\ action \in VALID_ACTIONS
  IN [replyText |-> Or(GetStripped(fields, "replyText", <<>>),
                       <<"you_just_said:">> \o user_text),
      emotion |-> IF valid THEN emotion ELSE <<"neutral">>,
      action |-> IF valid THEN action ELSE <<"idle">>]

\* lines 197-204: the three fields of a parsed JSON object
NormalizeParsed(fields, user_text) ==
  [replyText |-> Or(GetStripped(fields, "replyText", <<>>),
                    <<"you_just_said:">> \o user_text),
   emotion |-> NormalizeEmotion(Or(GetStripped(fields, "emotion", <<"neutral">>),
                                   <<"neutral">>)),
   action |-> NormalizeAction(Or(GetStripped(fields, "action", <<"idle">>),
                                 <<"idle">>))]

\* An outcome of generate_reply: the return statement taken (path: "local"
\* line 128, "raw" line 191, "parsed" line 214, "fallback" lines 221 and 224),
\* whether the call raised instead, the value returned, and whether the
\* assistant turn was recorded before returning.
Outcome(path, raised, result, recorded) ==
  [path |-> path, raised |-> raised, result |-> result, recorded |-> recorded]

NoResult == [replyText |-> <<>>, emotion |-> <<>>, action |-> <<>>]

\* except httpx.TimeoutException answering with a fixed reply, whatever the text
ExceptTimeout_FixedReply(user_text) ==
  { Outcome("fallback", FALSE, Reply("default_1", "neutral", "nod"), FALSE) }

\* except httpx.TimeoutException
ExceptTimeout(user_text) ==
  { Outcome("fallback", FALSE, r, FALSE) : r \in get_smart_mock_reply(user_text) }

\* except Exception logging and raising again
ExceptException_Reraise(user_text) ==
  { Outcome("fallback", TRUE, NoResult, FALSE) }

\* except Exception
ExceptException(user_text) ==
  { Outcome("fallback", FALSE, r, FALSE) : r \in get_smart_mock_reply(user_text) }

\* except json.JSONDecodeError handing the text over to the local responder
ExceptJSONDecodeError_LocalReply(content, user_text) == ExceptException(user_text)

\* except json.JSONDecodeError, lines 189-195: the content becomes the reply
ExceptJSONDecodeError(content, user_text) ==
  { Outcome("raw", FALSE,
            [replyText |-> content.raw, emotion |-> <<"neutral">>,
             action |-> <<"idle">>],
            FALSE) }

\* lines 187-218: content is in hand
HandleContent(content, user_text) ==
  CASE content.t = "null" -> ExceptException(user_text)
    [] content.t = "text" -> ExceptJSONDecodeError(content, user_text)
    [] content.t = "json" ->
         IF content.value.j = "object"
           THEN { Outcome("parsed", FALSE,
                          NormalizeParsed(content.value.fields, user_text), TRUE) }
           ELSE ExceptException(user_text)

\* lines 169-224: the outcomes of generate_reply once the post has ended in resp
HandleResponse(resp, user_text) ==
  CASE resp.kind = "timeout" -> ExceptTimeout(user_text)
    [] resp.kind \in {"transport", "status", "badbody", "nochoices"} ->
         ExceptException(user_text)
    [] resp.kind = "content" -> HandleContent(resp.content, user_text)

\* line 171: `await client.post(...)`, the one completion request of a call,
\* added to the n requests the call has issued before
Post(n) == n + 1

\* Retries with the timeout clause posting the request a second time
Retries_OnTimeout(resp) == IF resp.kind = "timeout" THEN 1 ELSE 0

\* the requests issued after the post has ended in resp: lines 183-224 hold no
\* post and no loop around the try
Retries(resp) == 0

\* ---------------------------------------------------------------------- inputs
\* userText values a client posts: a greeting with a question mark and outer
\* whitespace, and two texts the request validator refuses.
RawTexts == { <<" ", "nihao", "?", " ">>, <<" ">>, <<>> }

\* meta values a client posts: none, the empty object, a non-empty object
Metas == {None, "{}", "{k:v}"}

\* the values OPENAI_API_KEY can have in the environment
ApiKeys == {None, "", "sk-key"}

\* ChatRequest.validate_user_text: refuses an empty or blank text.  (The
\* 2000-character limit is out of reach of the texts above.)
ValidUserText(v) == ~(v = <<>> \/ strip(v) = <<>>)

validate_user_text(v) == strip(v)

Absent == [j |-> "absent", s |-> <<>>]

\* the JSON object with the given values, a key left out when its value is Absent
JObject(reply_text, emotion, action) ==
  LET all == [k \in {"replyText", "emotion", "action"} |->
                CASE k = "replyText" -> reply_text
                  [] k = "emotion" -> emotion
                  [] k = "action" -> action]
      present == {k \in DOMAIN all : all[k] # Absent}
  IN [j |-> "object", fields |-> [k \in present |-> all[k]]]

\* the JSON objects the model answers with: an emotion out of the vocabulary
\* beside a valid action, and a valid emotion to trim beside a numeric action
Objects ==
  { JObject(JStr(<<" ", "ok", " ">>), JStr(<<"bogus">>), JStr(<<"dance">>)),
    JObject(JStr(<<"ok">>), JStr(<<" ", "sad">>), JNum("5")) }

Contents ==
  { [t |-> "null"], [t |-> "text", raw |-> <<"plain", " ", "words">>],
    [t |-> "json", value |-> [j |-> "array"]] }
  \cup { [t |-> "json", value |-> v] : v \in Objects }

FailureKinds == {"timeout", "transport", "status", "badbody", "nochoices"}

Responses ==
  { [kind |-> k] : k \in FailureKinds }
  \cup { [kind |-> "content", content |-> c] : c \in Contents }

\* The values a field of the answered JSON object is drawn from when the
\* handling of the content is checked on its own: left out, empty, blank, a
\* word of the vocabulary with and without outer whitespace, a word outside
\* it, a word of the other vocabulary, null and a number.
ReplyTextValues ==
  { Absent, JStr(<<>>), JStr(<<" ">>), JStr(<<" ", "ok", " ">>), JNull }

EmotionValues ==
  { Absent, JStr(<<>>), JStr(<<" ", "sad", " ">>), JStr(<<"happy">>),
    JStr(<<"bogus">>), JStr(<<"dance">>), JNull, JNum("5") }

ActionValues ==
  { Absent, JStr(<<>>), JStr(<<" ", "dance">>), JStr(<<"nod">>),
    JStr(<<"bogus">>), JStr(<<"happy">>), JNull, JNum("5") }

WideObjects ==
  { JObject(r, e, a) : r \in ReplyTextValues, e \in EmotionValues, a \in ActionValues }

\* contents json.loads refuses: plain words with outer whitespace, the empty
\* string, an unfinished object
RawContents ==
  { [t |-> "text", raw |-> r] :
      r \in { <<" ", "plain", "words", " ">>, <<>>, <<"{", "broken">> } }

ContentResponse(content) == [kind |-> "content", content |-> content]

RemoteResponses ==
  { ContentResponse([t |-> "json", value |-> v]) : v \in WideObjects }
  \cup { ContentResponse(c) : c \in RawContents }

\* ----------------------------------------------------------------------- state
VARIABLES
  api_key,            \* DialogueService.api_key, read once at construction
  session_histories,  \* the module-level dict: session id -> list of turns
  now,                \* the clock behind datetime.now(): timestamps issued so far
  pc,                 \* per request slot: "idle", "awaiting", "delivered", "error"
  user_text,          \* per slot: generate_reply's user_text
  session_id,         \* per slot: generate_reply's session_id
  messages,           \* per slot: the messages of the request in flight
  result,             \* per slot: the ChatResponse delivered
  path,               \* per slot: the return statement the call left through
  recorded,           \* per slot: the turns this call appended to the store
  started,            \* chat calls started so far
  posts,              \* per slot: the completion requests the call has issued
  appended            \* per session id: every turn appended since the
                      \* transcript was created or last cleared, in append order

vars == <<api_key, session_histories, now, pc, user_text, session_id, messages,
          result, path, recorded, started, posts, appended>>

Init ==
  /\ api_key \in ApiKeys
  /\ session_histories = <<>>
  /\ now = 0
  /\ pc = [c \in Slots |-> "idle"]
  /\ user_text = [c \in Slots |-> <<>>]
  /\ session_id = [c \in Slots |-> None]
  /\ messages = [c \in Slots |-> <<>>]
  /\ result = [c \in Slots |-> NoResult]
  /\ path = [c \in Slots |-> "none"]
  /\ recorded = [c \in Slots |-> <<>>]
  /\ started = 0
  /\ posts = [c \in Slots |-> 0]
  /\ appended = [s \in SessionIds |-> <<>>]

\* the log of appended turns, kept beside the store
Logged(log, sid, turns) ==
  IF Truthy(sid) THEN [log EXCEPT ![sid] = @ \o turns] ELSE log

SlotFree(c) == pc[c] \in {"idle", "delivered", "error"}

\* a new call takes the first free slot
FirstFree(c) == SlotFree(c) /\ \A d \in Slots : d < c => ~SlotFree(d)

\* f with slot c set to v; the responses the other slots still show go
Shown(f, c, v, blank) ==
  [d \in Slots |-> IF d = c THEN v ELSE IF SlotFree(d) THEN blank ELSE f[d]]

\* POST /chat with a userText the validator refuses: generate_reply never runs
ChatRejected(raw) ==
  /\ ~ValidUserText(raw)
  /\ UNCHANGED vars

\* POST /chat without a credential: lines 108-128, one step
ChatLocal(c, raw, sid, meta) ==
  /\ FirstFree(c)
  /\ started < MaxCalls
  /\ ValidUserText(raw)
  /\ ~Truthy(api_key)
  /\ LET text == validate_user_text(raw)
         h1 == RecordUser(session_histories, sid, text, now)
     IN \E r \in get_smart_mock_reply(text) :
          LET o == Outcome("local", FALSE, r, TRUE)
              turns == IF Truthy(sid)
                         THEN << Turn("user", text, now),
                                 Turn("assistant", r.replyText, now + 1) >>
                         ELSE <<>>
          IN /\ session_histories' = RecordAssistant(h1, sid, r.replyText, now + 1)
             /\ now' = now + Len(turns)
             /\ appended' = Logged(appended, sid, turns)
             /\ recorded' = Shown(recorded, c, turns, <<>>)
             /\ pc' = Shown(pc, c, "delivered", "idle")
             /\ user_text' = Shown(user_text, c, text, <<>>)
             /\ session_id' = Shown(session_id, c, sid, None)
             /\ messages' = Shown(messages, c, <<>>, <<>>)
             /\ result' = Shown(result, c, o.result, NoResult)
             /\ path' = Shown(path, c, o.path, "none")
  /\ posts' = Shown(posts, c, 0, 0)
  /\ started' = started + 1
  /\ UNCHANGED api_key

\* POST /chat with a credential, up to the await: lines 108-182
ChatSend(c, raw, sid, meta) ==
  /\ FirstFree(c)
  /\ started < MaxCalls
  /\ ValidUserText(raw)
  /\ Truthy(api_key)
  /\ LET text == validate_user_text(raw)
         h1 == RecordUser(session_histories, sid, text, now)
         turns == IF Truthy(sid) THEN << Turn("user", text, now) >> ELSE <<>>
     IN /\ session_histories' = h1
        /\ now' = now + Len(turns)
        /\ appended' = Logged(appended, sid, turns)
        /\ recorded' = Shown(recorded, c, turns, <<>>)
        /\ pc' = Shown(pc, c, "awaiting", "idle")
        /\ user_text' = Shown(user_text, c, text, <<>>)
        /\ session_id' = Shown(session_id, c, sid, None)
        /\ messages' = Shown(messages, c, BuildMessages(h1, sid, text, meta), <<>>)
        /\ result' = Shown(result, c, NoResult, NoResult)
        /\ path' = Shown(path, c, "none", "none")
  /\ posts' = Shown(posts, c, Post(0), 0)
  /\ started' = started + 1
  /\ UNCHANGED api_key

\* the post has ended in resp: lines 183-224, then chat() answers
ChatReceive(c, resp) ==
  /\ pc[c] = "awaiting"
  /\ \E o \in HandleResponse(resp, user_text[c]) :
       LET sid == session_id[c]
           turns == IF o.recorded /\ Truthy(sid)
                      THEN << Turn("assistant", o.result.replyText, now) >>
                      ELSE <<>>
       IN /\ session_histories' =
               IF o.recorded
                 THEN RecordAssistant(session_histories, sid, o.result.replyText, now)
                 ELSE session_histories
          /\ now' = now + Len(turns)
          /\ appended' = Logged(appended, sid, turns)
          /\ recorded' = Shown(recorded, c, recorded[c] \o turns, <<>>)
          /\ pc' = Shown(pc, c, IF o.raised THEN "error" ELSE "delivered", "idle")
          /\ user_text' = Shown(user_text, c, user_text[c], <<>>)
          /\ session_id' = Shown(session_id, c, session_id[c], None)
          /\ messages' = Shown(messages, c, <<>>, <<>>)
          /\ result' = Shown(result, c, IF o.raised THEN NoResult ELSE o.result,
                             NoResult)
          /\ path' = Shown(path, c, o.path, "none")
  /\ posts' = Shown(posts, c, posts[c] + Retries(resp), 0)
  /\ UNCHANGED <<api_key, started>>

\* DELETE /chat/session/{session_id}: the body answered
ClearResponse(histories, sid) ==
  [success |-> clear_session(histories, sid).success]

\* DELETE /chat/session/{session_id}
ApiClearSession(sid) ==
  /\ LET r == clear_session(session_histories, sid)
     IN /\ session_histories' = r.histories
        /\ appended' = IF r.success THEN [appended EXCEPT ![sid] = <<>>] ELSE appended
  /\ UNCHANGED <<api_key, now, pc, user_text, session_id, messages, result,
                 path, recorded, started, posts>>

\* GET /chat/session/{session_id}/history: the body answered
HistoryResponse(histories, sid) ==
  LET history == get_session_history(histories, sid)
  IN [sessionId |-> sid, history |-> history, count |-> Len(history)]

\* StoreAfterGet with the read done by subscript: session_histories[session_id]
\* on the defaultdict stores an empty list for a key it lacks
StoreAfterGet_Subscript(histories, sid) ==
  [s \in DOMAIN histories \cup {sid} |-> get_session_history(histories, s)]

\* the store after session_histories.get(session_id, []): dict.get leaves out
\* the default factory
StoreAfterGet(histories, sid) == histories

\* GET /chat/session/{session_id}/history
ApiGetHistory(sid) ==
  /\ HistoryResponse(session_histories, sid).sessionId = sid
  /\ session_histories' = StoreAfterGet(session_histories, sid)
  /\ UNCHANGED <<api_key, now, pc, user_text, session_id, messages, result,
                 path, recorded, started, posts, appended>>

Next ==
  \/ \E raw \in RawTexts : ChatRejected(raw)
  \/ \E c \in Slots, raw \in RawTexts, sid \in SessionArgs, meta \in Metas :
       ChatLocal(c, raw, sid, meta)
  \/ \E c \in Slots, raw \in RawTexts, sid \in SessionArgs, meta \in Metas :
       ChatSend(c, raw, sid, meta)
  \/ \E c \in Slots, resp \in Responses : ChatReceive(c, resp)
  \/ \E sid \in SessionIds : ApiClearSession(sid)
  \/ \E sid \in SessionIds : ApiGetHistory(sid)

Spec == Init /\ [][Next]_vars

\* The client is built with timeout=30.0: a post that has not ended otherwise
\* ends in httpx.TimeoutException.  A call stays enabled for that step until
\* its post ends, so no call waits for ever, exactly as under weak fairness of
\* the receive step as a whole.
FairSpec == Spec /\ \A c \in Slots : WF_vars(ChatReceive(c, [kind |-> "timeout"]))

\* One word per keyword category of the local responder, lowest priority
\* first, and a word no category knows
Keywords == <<"?", "wu", "tianqi", "zaijian", "xiexie", "shenme", "nihao", "plain">>

\* the user texts made of any of these words, each at most once
KeywordTexts ==
  { SelectSeq(Keywords, LAMBDA k : k \in S) :
      S \in SUBSET { Keywords[i] : i \in 1..Len(Keywords) } } \ { <<>> }

\* The local responder on its own: no credential is configured, calls carry
\* no session id, and the text is drawn from KeywordTexts.
LocalInit == Init /\ ~Truthy(api_key)

LocalNext == \E c \in Slots, raw \in KeywordTexts : ChatLocal(c, raw, None, None)

LocalSpec == LocalInit /\ [][LocalNext]_vars

\* The handling of the remote answer on its own: a credential is configured,
\* calls carry no session id, and the answer is drawn from RemoteResponses.
RemoteInit == Init /\ Truthy(api_key)

RemoteNext ==
  \/ \E c \in Slots, raw \in RawTexts : ChatSend(c, raw, None, None)
  \/ \E c \in Slots, resp \in RemoteResponses : ChatReceive(c, resp)

RemoteSpec == RemoteInit /\ [][RemoteNext]_vars

\* ---------------------------------------------------------------------- claims
\* the stored transcript of session id s, empty when the store has no entry
Transcript(s) == IF s \in DOMAIN session_histories THEN session_histories[s] ELSE <<>>

Min(a, b) == IF a <= b THEN a ELSE b

\* C1: every chat call that returns delivers an emotion of the 5-value
\* vocabulary and an action of the 8-value vocabulary, on every path (local,
\* parsed JSON, raw non-JSON content, fallback after a failure), and no call
\* ends in an error.
C1_ResultInVocabulary ==
  \A c \in Slots :
    /\ pc[c] # "error"
    /\ pc[c] = "delivered" =>
         /\ path[c] \in {"local", "parsed", "raw", "fallback"}
         /\ result[c].emotion \in VALID_EMOTIONS
         /\ result[c].action \in VALID_ACTIONS

\* a call answered from a JSON object whose emotion was out of vocabulary and
\* whose action was valid
C1_Witness ==
  \E c \in Slots :
    /\ pc[c] = "delivered" /\ path[c] = "parsed"
    /\ result[c].emotion = <<"neutral">> /\ result[c].action = <<"dance">>

\* C2: every stored transcript holds at most 2 x MAX_HISTORY_LENGTH entries,
\* after the user turn and after the assistant turn.
C2_LengthBound ==
  \A s \in DOMAIN session_histories :
    Len(session_histories[s]) <= 2 * MAX_HISTORY_LENGTH

\* C3: a completed chat call with a session id appended exactly two turns to
\* that session, a user turn then an assistant turn, whichever path it took;
\* a call without a session id (omitted or empty) appended none and left the
\* store without an entry for it.
C3_TwoTurnsPerCall ==
  \A c \in Slots :
    pc[c] = "delivered" =>
      IF Truthy(session_id[c])
        THEN /\ Len(recorded[c]) = 2
             /\ recorded[c][1].role = "user"
             /\ recorded[c][2].role = "assistant"
        ELSE /\ recorded[c] = <<>>
             /\ session_id[c] \notin DOMAIN session_histories

\* C4: when the remote call fails (timeout, transport error, non-success
\* status, unparseable body, missing choices/message) the call is delivered
\* with a result the local responder can return for the same text, and the
\* caller never gets an error: while a call waits, every failure it can meet
\* is handled so, and every call that left through the fallback was.
C4_FailureFallsBackToLocal ==
  \A c \in Slots :
    /\ pc[c] = "awaiting" =>
         \A k \in FailureKinds :
           \A o \in HandleResponse([kind |-> k], user_text[c]) :
             /\ ~o.raised
             /\ o.path = "fallback"
             /\ o.result \in get_smart_mock_reply(user_text[c])
    /\ path[c] = "fallback" =>
         /\ pc[c] = "delivered"
         /\ result[c] \in get_smart_mock_reply(user_text[c])

\* a call delivered through the fallback
C4_Witness ==
  \E c \in Slots :
    /\ pc[c] = "delivered" /\ path[c] = "fallback"
    /\ result[c] \in get_smart_mock_reply(user_text[c])

\* C5: a call that fell back to the local responder after a remote failure,
\* with a session id, has appended the local reply as an assistant turn by
\* the time it is delivered.
C5_FallbackRecordsAssistant ==
  \A c \in Slots :
    (pc[c] = "delivered" /\ path[c] = "fallback" /\ Truthy(session_id[c])) =>
      \E i \in 1..Len(recorded[c]) :
        /\ recorded[c][i].role = "assistant"
        /\ recorded[c][i].content = result[c].replyText

\* C6: every call waiting for the remote answer is eventually delivered, and
\* no call ever ends in an error.
C6_EventuallyDelivered ==
  /\ \A c \in Slots : (pc[c] = "awaiting") ~> (pc[c] = "delivered")
  /\ [](\A c \in Slots : pc[c] # "error")

\* a call delivered after it waited for the remote answer
C6_Witness ==
  \E c \in Slots : pc[c] = "delivered" /\ path[c] \in {"parsed", "raw", "fallback"}

\* C7: the stored transcript of a session is the most recent part of the
\* sequence of turns appended to it since it was created or last cleared: a
\* contiguous suffix in append order, holding at least the last
\* 2 x MAX_HISTORY_LENGTH of them, and stored exactly when a turn was appended.
C7_TranscriptIsSuffix ==
  \A s \in SessionIds :
    LET t == Transcript(s)
        log == appended[s]
    IN /\ Len(t) <= Len(log)
       /\ t = SubSeq(log, Len(log) - Len(t) + 1, Len(log))
       /\ Len(t) >= Min(Len(log), 2 * MAX_HISTORY_LENGTH)
       /\ (s \in DOMAIN session_histories) = (log # <<>>)

\* more than 2 x MAX_HISTORY_LENGTH turns were appended and the oldest are gone
C7_Witness ==
  \E s \in SessionIds :
    /\ Len(appended[s]) > 2 * MAX_HISTORY_LENGTH
    /\ Len(Transcript(s)) < Len(appended[s])
    /\ Transcript(s) # <<>>

\* session id b has the same transcript, or the same absence, after the step
Same(b) ==
  /\ (b \in DOMAIN session_histories') = (b \in DOMAIN session_histories)
  /\ b \in DOMAIN session_histories => session_histories'[b] = session_histories[b]

\* C8: clearSession on an id without a transcript answers false and leaves
\* the store as it is; on an id with a transcript it answers true, removes
\* the transcript, and getHistory on the id then answers the empty sequence.
C8_ClearSession ==
  [][ \A sid \in SessionIds :
        ApiClearSession(sid) =>
          IF sid \in DOMAIN session_histories
            THEN /\ ClearResponse(session_histories, sid).success = TRUE
                 /\ sid \notin DOMAIN session_histories'
                 /\ HistoryResponse(session_histories', sid).history = <<>>
                 /\ HistoryResponse(session_histories', sid).count = 0
            ELSE /\ ClearResponse(session_histories, sid).success = FALSE
                 /\ session_histories' = session_histories ]_vars

\* a call recorded turns in a session whose transcript has since been cleared
C8_Witness ==
  \E c \in Slots :
    /\ recorded[c] # <<>>
    /\ session_id[c] \notin DOMAIN session_histories
    /\ HistoryResponse(session_histories, session_id[c]).history = <<>>

\* C9: under every interleaving of chat calls on one session, the transcript
\* holds the appended turns once each and in the order the appends ran
\* (strictly increasing timestamps), without a gap (every turn appended after
\* the oldest stored one is stored), turns leave it only through the length
\* limit, and a call's user turn comes before its own assistant turn.
C9_NoLostOrDuplicatedAppend ==
  \A s \in SessionIds :
    LET t == Transcript(s)
        log == appended[s]
    IN /\ \A i, j \in 1..Len(t) : i < j => t[i].timestamp < t[j].timestamp
       /\ \A k \in 1..Len(log) :
            (t # <<>> /\ log[k].timestamp >= t[1].timestamp) =>
               \E i \in 1..Len(t) : t[i] = log[k]
       /\ Len(t) >= Min(Len(log), 2 * MAX_HISTORY_LENGTH)
       /\ \A c \in Slots :
            (session_id[c] = s /\ Len(recorded[c]) = 2) =>
               /\ recorded[c][1].role = "user"
               /\ recorded[c][2].role = "assistant"
               /\ \A j \in 1..Len(t) :
                    (t[j] = recorded[c][2] /\ recorded[c][1].timestamp >= t[1].timestamp) =>
                       \E i \in 1..(j - 1) : t[i] = recorded[c][1]

\* two calls on one session interleaved: both user turns, then both replies
C9_Witness ==
  \E s \in SessionIds :
    LET t == Transcript(s)
    IN /\ Len(t) = 4
       /\ t[1].role = "user" /\ t[2].role = "user"
       /\ t[3].role = "assistant" /\ t[4].role = "assistant"
       /\ \E c \in Slots :
            pc[c] = "delivered" /\ session_id[c] = s /\ recorded[c][2] = t[4]

\* slot c starts a chat call in this step
Starts(c) == FirstFree(c) /\ started' = started + 1

\* slot c gets its remote answer in this step
Receives(c) == pc[c] = "awaiting" /\ pc'[c] # "awaiting"

C11_AtMostOneRequest ==
  \A c \in Slots :
    /\ posts[c] <= 1
    /\ pc[c] = "awaiting" => posts[c] = 1
    /\ pc[c] = "delivered" =>
         /\ posts[c] = (IF Truthy(api_key) THEN 1 ELSE 0)
         /\ (path[c] = "local") = (posts[c] = 0)

\* a call delivered through the fallback after its one request failed
C11_Witness ==
  \E c \in Slots :
    pc[c] = "delivered" /\ path[c] = "fallback" /\ posts[c] = 1

\* C12: when the remote call succeeds and the content is text that is not
\* JSON, the call is delivered with that text as replyText, character for
\* character, with emotion neutral and action idle; the local responder's
\* reply does not replace it.
C12_RawContentKept ==
  [][ \A c \in Slots, content \in RawContents :
        ChatReceive(c, ContentResponse(content)) =>
          /\ pc'[c] = "delivered"
          /\ path'[c] = "raw"
          /\ result'[c].replyText = content.raw
          /\ result'[c].emotion = <<"neutral">>
          /\ result'[c].action = <<"idle">> ]_vars

\* a call delivered with the raw content, outer whitespace kept
C12_Witness ==
  \E c \in Slots :
    /\ pc[c] = "delivered" /\ path[c] = "raw"
    /\ result[c].replyText = <<" ", "plain", "words", " ">>
    /\ result[c].replyText \notin
         { r.replyText : r \in get_smart_mock_reply(user_text[c]) }

\* the text of a field of the answered object once trimmed, empty when the
\* key is missing
FieldText(v, key) ==
  IF key \in DOMAIN v.fields THEN strip(str(v.fields[key])) ELSE <<>>

\* C13: on remote success with a JSON object, emotion and action are settled
\* each on its own: a field is delivered as its trimmed value when that is in
\* its vocabulary and as its default (neutral, idle) when it is missing, empty
\* or outside the vocabulary, whatever the other field holds; an empty
\* replyText is delivered as the 'you said' prefix followed by the user text.
\* Every object a waiting call can be answered with is handled so, and every
\* call delivered from an object was.
C13_FieldsNormalizedIndependently ==
  LET Normalized(v, r, text) ==
        /\ r.emotion = (IF FieldText(v, "emotion") \in VALID_EMOTIONS
                          THEN FieldText(v, "emotion") ELSE <<"neutral">>)
        /\ r.action = (IF FieldText(v, "action") \in VALID_ACTIONS
                         THEN FieldText(v, "action") ELSE <<"idle">>)
        /\ FieldText(v, "replyText") = <<>> =>
             r.replyText = <<"you_just_said:">> \o text
  IN \A c \in Slots :
       /\ pc[c] = "awaiting" =>
            \A v \in WideObjects :
              \A o \in HandleResponse(ContentResponse([t |-> "json", value |-> v]),
                                      user_text[c]) :
                /\ ~o.raised
                /\ o.path = "parsed"
                /\ Normalized(v, o.result, user_text[c])
       /\ (pc[c] = "delivered" /\ path[c] = "parsed") =>
            \E v \in WideObjects : Normalized(v, result[c], user_text[c])

\* a call delivered with a defaulted emotion beside a kept action, the
\* replyText replaced
C13_Witness ==
  \E c \in Slots :
    /\ pc[c] = "delivered" /\ path[c] = "parsed"
    /\ result[c].emotion = <<"neutral">>
    /\ result[c].action = <<"dance">>
    /\ result[c].replyText = <<"you_just_said:">> \o user_text[c]

\* the categories of the local responder in the order of the claim
Categories ==
  <<"greeting", "self", "gratitude", "farewell", "weather", "dance", "question">>

\* the text holds a keyword of the category
Matches(category, text) ==
  CASE category = "greeting" -> \E g \in GREETINGS : Contains(lower(text), g)
    [] category = "self" ->
         \E k \in {"nishishei", "jieshao", "shenme"} : Contains(text, k)
    [] category = "gratitude" -> \E k \in {"xiexie", "ganxie"} : Contains(text, k)
    [] category = "farewell" ->
         \/ \E k \in {"zaijian", "baibai"} : Contains(text, k)
         \/ Contains(lower(text), "bye")
    [] category = "weather" -> Contains(text, "tianqi")
    [] category = "dance" -> \E k \in {"tiaowu", "wu"} : Contains(text, k)
    [] category = "question" -> \E k \in {"?", "fw?", "ma"} : Contains(text, k)

\* the canned triples of a category
Canned(category) ==
  CASE category = "greeting" ->
         { Reply("greeting_1", "happy", "wave"), Reply("greeting_2", "happy", "greet"),
           Reply("greeting_3", "happy", "wave") }
    [] category = "self" -> { Reply("self_intro", "happy", "greet") }
    [] category = "gratitude" -> { Reply("you_are_welcome", "happy", "nod") }
    [] category = "farewell" -> { Reply("farewell", "happy", "wave") }
    [] category = "weather" -> { Reply("weather", "happy", "think") }
    [] category = "dance" -> { Reply("dance", "happy", "dance") }
    [] category = "question" -> { Reply("good_question", "neutral", "think") }
    [] category = "default" ->
         { Reply("default_1", "neutral", "nod"), Reply("default_2", "neutral", "idle"),
           Reply("default_3", "neutral", "nod"), Reply("default_4", "neutral", "idle") }

\* the highest-priority category the text matches, "default" when none
Highest(text) ==
  LET hits == { i \in 1..Len(Categories) : Matches(Categories[i], text) }
  IN IF hits = {} THEN "default"
     ELSE Categories[CHOOSE i \in hits : \A j \in hits : i <= j]

\* C14: the local responder tests its categories in the order greeting,
\* self-identification, gratitude, farewell, weather, dance request, question,
\* default, and the first that matches decides: for every text the delivered
\* triple is one of the canned triples of the highest-priority category the
\* text matches, of the default ones when it matches none; a farewell with a
\* question mark gets the farewell triple.
C14_FirstMatchingCategoryWins ==
  \A c \in Slots :
    (pc[c] = "delivered" /\ path[c] = "local") =>
      result[c] \in Canned(Highest(user_text[c]))

\* a farewell with a question mark, answered with the farewell triple
C14_Witness ==
  \E c \in Slots :
    /\ pc[c] = "delivered" /\ path[c] = "local"
    /\ Matches("farewell", user_text[c]) /\ Matches("question", user_text[c])
    /\ Highest(user_text[c]) = "farewell"
    /\ result[c] = Reply("farewell", "happy", "wave")

\* C15: without a credential, every text that holds xiexie ("thanks") is
\* answered with action nod, whatever else the text holds.
C15_ThanksAlwaysNod ==
  \A c \in Slots :
    (pc[c] = "delivered" /\ path[c] = "local" /\ Contains(user_text[c], "xiexie")) =>
      result[c].action = <<"nod">>

\* C15 as amended: without a credential, every text that holds xiexie and
\* holds no greeting keyword (case-insensitively) and no self-identification
\* keyword is answered with action nod, whatever else the text holds.
C15_ThanksNodBelowGreetingAndSelf ==
  \A c \in Slots :
    ( /\ pc[c] = "delivered" /\ path[c] = "local"
      /\ Contains(user_text[c], "xiexie")
      /\ ~Matches("greeting", user_text[c])
      /\ ~Matches("self", user_text[c]) ) =>
      result[c].action = <<"nod">>

\* thanks said with a farewell, the weather, a dance request and a question
\* mark, answered with nod
C15_Witness ==
  \E c \in Slots :
    /\ pc[c] = "delivered" /\ path[c] = "local"
    /\ Contains(user_text[c], "xiexie")
    /\ \A k \in {"zaijian", "tianqi", "wu", "?"} : Contains(user_text[c], k)
    /\ ~Matches("greeting", user_text[c]) /\ ~Matches("self", user_text[c])
    /\ result[c].action = <<"nod">>

\* C16: without a credential, every text that holds nihao ("hello") is
\* answered with emotion happy and action wave or greet, whatever else the
\* text holds.
C16_HelloAlwaysGreets ==
  \A c \in Slots :
    (pc[c] = "delivered" /\ path[c] = "local" /\ Contains(user_text[c], "nihao")) =>
      /\ result[c].emotion = <<"happy">>
      /\ result[c].action \in {<<"wave">>, <<"greet">>}

\* a greeting said with thanks and a question mark, answered as a greeting
C16_Witness ==
  \E c \in Slots :
    /\ pc[c] = "delivered" /\ path[c] = "local"
    /\ \A k \in {"nihao", "xiexie", "?"} : Contains(user_text[c], k)
    /\ result[c].emotion = <<"happy">>
    /\ result[c].action \in {<<"wave">>, <<"greet">>}

\* C17: getHistory is a pure read: it leaves the session store as it was, so
\* a second getHistory on the id answers the same sequence; on an id without
\* a transcript it stores no entry, so a clearSession on that id afterwards
\* still answers false.
C17_GetHistoryIsPureRead ==
  [][ \A sid \in SessionIds :
        ApiGetHistory(sid) =>
          /\ session_histories' = session_histories
          /\ HistoryResponse(session_histories', sid)
               = HistoryResponse(session_histories, sid)
          /\ sid \notin DOMAIN session_histories =>
               /\ HistoryResponse(session_histories, sid).history = <<>>
               /\ sid \notin DOMAIN session_histories'
               /\ ClearResponse(session_histories', sid).success = FALSE ]_vars

\* one id with a transcript to read and one without
C17_Witness ==
  \E a, b \in SessionIds :
    /\ HistoryResponse(session_histories, a).count > 0
    /\ b \notin DOMAIN session_histories
    /\ HistoryResponse(session_histories, b).count = 0
    /\ ClearResponse(session_histories, b).success = FALSE

\* the turns as the prompt carries them: role and content, oldest first
AsMessages(turns) == [i \in 1..Len(turns) |-> Message(turns[i].role, turns[i].content)]

\* slot c sends its request in this step
Sends(c) == Starts(c) /\ pc'[c] = "awaiting"

HistorySlice(m) ==
  LET last == IF m[Len(m)].role = "system" THEN Len(m) - 1 ELSE Len(m)
  IN SubSeq(m, 2, last - 1)

\* C19: on the remote path with a session id, the history slice of the prompt
\* holds only turns of the transcript as it was before the call began (its
\* most recent ones), so the current user turn is in the prompt once, as the
\* user message after the slice.
C19_HistoryIsPriorTranscript ==
  [][ \A c \in Slots :
        (Sends(c) /\ Truthy(session_id'[c])) =>
          LET prior == Transcript(session_id'[c])
              slice == HistorySlice(messages'[c])
          IN /\ Len(slice) <= Len(prior)
             /\ slice = AsMessages(LastN(prior, Len(slice))) ]_vars

\* C20: a transcript that was cleared stays out of the store until a new chat
\* call for the id begins: the first turn appended to a session since it was
\* created or last cleared is a user turn, and a stored assistant turn of a
\* call has that call's user turn among the turns appended since then.
C20_ClearedUntilNewCall ==
  /\ \A s \in SessionIds :
       appended[s] # <<>> => appended[s][1].role = "user"
  /\ \A c \in Slots :
       LET s == session_id[c]
       IN (Truthy(s) /\ Len(recorded[c]) = 2
           /\ \E i \in 1..Len(Transcript(s)) : Transcript(s)[i] = recorded[c][2]) =>
            \E k \in 1..Len(appended[s]) : appended[s][k] = recorded[c][1]

====
